---- MODULE Spec2Model ----
(***************************************************************************)
(* Model of scripts/verify_h5.py: the comparison helper check_eq, the enum *)
(* and compound verifiers, and the script's main test runner.              *)
(*                                                                         *)
(* Numbers.  Floating-point values are exact decimals counted in units of  *)
(* 1e-8 (Unit units make 1.0), plus NaN and the infinities; binary         *)
(* rounding of float64 is not modelled.  Every array element is a record   *)
(* [c, v, s]: c is the element's class, v its number, s its text.          *)
(*                                                                         *)
(* Specifications.  Spec is the script run on a file, its sections in the  *)
(* order written; SpecAnyOrder takes the same sections in any order.       *)
(* SpecEq applies check_eq to a pair of arrays, in both argument orders;   *)
(* SpecEnum applies verify_enum, and verify_compound's column handling, to *)
(* an enum column.                                                         *)
(***************************************************************************)
EXTENDS Integers, Sequences, FiniteSets, TLC

VARIABLES
    eq_actual,      \* check_eq harness: the `actual` argument
    eq_expected,    \* check_eq harness: the `expected` argument
    eq_result,      \* outcome of check_eq(actual, expected), "none" before the call
    eq_swapped,     \* outcome of check_eq(expected, actual), "none" before the call
    en_dset,        \* enum harness: the dataset, [kind, data, mapping]
    en_expected,    \* enum harness: the expected labels
    en_out,         \* outcome of verify_enum(dset, expected): [v, a]
    en_col,         \* outcome of verify_compound's handling of dset as a column: [v, a]
    file,           \* interop_test.h5: for each field, the name of the value it holds
    pc,             \* the script's position: "start", "running", "complete",
                    \* "aborted" (the file did not open), "crashed" (uncaught exception)
    done,           \* the sections of the runner that have been executed
    last,           \* the section entered last, "" before the first
    results,        \* per check: "none", "pass", or the FAIL message printed
    exit_code       \* the process's exit status, -1 while it runs

eqVars == <<eq_actual, eq_expected, eq_result, eq_swapped>>
enVars == <<en_dset, en_expected, en_out, en_col>>
runVars == <<file, pc, done, last, results, exit_code>>
vars == <<eqVars, enVars, runVars>>

\* ------------------------------------------------------------------ bounds
MaxLen == 2         \* longest vector drawn as a check_eq argument
MaxCodes == 2       \* longest enum column drawn for the enum harness
MaxFaults == 2      \* most datasets of the file that differ from the reference file

\* --------------------------------------------------------- numpy defaults
Unit == 100000000   \* units of 1e-8 that make 1.0
Atol == 1           \* np.allclose atol = 1e-8, in units
RtolInv == 100000   \* np.allclose rtol = 1e-5 = 1 / RtolInv

\* ---------------------------------------------------------------- elements
I(n) == [c |-> "int", v |-> n, s |-> ""]
F(u) == [c |-> "fin", v |-> u, s |-> ""]
NaN == [c |-> "nan", v |-> 0, s |-> ""]
Inf(sign) == [c |-> "inf", v |-> sign, s |-> ""]
T(str) == [c |-> "str", v |-> 0, s |-> str]
\* a fixed-width byte string; v = 1 when its bytes are valid UTF-8
B(str, valid) == [c |-> "bytes", v |-> IF valid THEN 1 ELSE 0, s |-> str]

Abs(n) == IF n < 0 THEN -n ELSE n

\* numpy's promotion of an integer (or boolean) element to float64
ToFloat(e) == IF e.c = "int" THEN F(e.v * Unit) ELSE e

\* ------------------------------------------------------------------ arrays
\* An array is [kind, shape, data]: the dtype kind ("int", "bool", "float",
\* "text"), the shape tuple, and the elements in row-major order.
Arr(kind, shape, data) == [kind |-> kind, shape |-> shape, data |-> data]

\* np.array(x) of a bare scalar: shape ()
NpScalar(kind, e) == Arr(kind, <<>>, <<e>>)

\* np.array(x) of a flat Python list; the empty list becomes float64
NpList(kind, seq) == Arr(IF Len(seq) = 0 THEN "float" ELSE kind, <<Len(seq)>>, seq)

RECURSIVE Flatten(_)
Flatten(rows) == IF Len(rows) = 0 THEN <<>> ELSE Head(rows) \o Flatten(Tail(rows))

\* np.array(x) of a rectangular nested list: shape (rows, columns)
NpNested(kind, rows) == Arr(kind, <<Len(rows), Len(rows[1])>>, Flatten(rows))

\* ----------------------------------------------------------- comparisons
\* One element of numpy's `a == b`, after promotion to a common type.
ElemEqual(x, y) ==
    IF x.c = "str" \/ y.c = "str" THEN x.c = y.c /\ x.s = y.s
    ELSE IF x.c = "int" /\ y.c = "int" THEN x.v = y.v
    ELSE LET fx == ToFloat(x)
             fy == ToFloat(y)
         IN  fx.c # "nan" /\ fy.c # "nan" /\ fx.c = fy.c /\ fx.v = fy.v

\* IsClose with the tolerance scaled by the first argument instead of the second
IsCloseRelativeToActual(x, y) ==
    LET fx == ToFloat(x)
        fy == ToFloat(y)
    IN  IF fx.c = "fin" /\ fy.c = "fin"
        THEN Abs(fx.v - fy.v) <= Atol + (Abs(fx.v) \div RtolInv)
        ELSE fx.c = "inf" /\ fy.c = "inf" /\ fx.v = fy.v

\* One element of np.isclose(a, b): |a - b| <= atol + rtol * |b| for finite
\* values, equality for the infinities, never for NaN.
IsClose(x, y) ==
    LET fx == ToFloat(x)
        fy == ToFloat(y)
    IN  IF fx.c = "fin" /\ fy.c = "fin"
        THEN Abs(fx.v - fy.v) <= Atol + (Abs(fy.v) \div RtolInv)
        ELSE fx.c = "inf" /\ fy.c = "inf" /\ fx.v = fy.v

\* ArrayEqual that is satisfied by any one matching element
ArrayEqualAny(a, b) == \E i \in 1..Len(a.data) : ElemEqual(a.data[i], b.data[i])

\* np.array_equal(a, b) on arrays of one shape
ArrayEqual(a, b) == \A i \in 1..Len(a.data) : ElemEqual(a.data[i], b.data[i])

\* np.allclose(a, b) on arrays of one shape
AllClose(a, b) == \A i \in 1..Len(a.data) : IsClose(a.data[i], b.data[i])

IsFloating(a) == a.kind = "float"

\* check_eq comparing the number of elements instead of the shape
check_eq_by_size(actual, expected) ==
    IF Len(actual.data) # Len(expected.data) THEN "shape"
    ELSE IF IsFloating(actual)
         THEN IF expected.kind = "text" THEN "raise"
              ELSE IF AllClose(actual, expected) THEN "pass" ELSE "value"
         ELSE IF ArrayEqual(actual, expected) THEN "pass" ELSE "value"

\* check_eq with scalars promoted to one-element vectors (np.atleast_1d)
check_eq_atleast_1d(actual, expected) ==
    LET Shape1(a) == IF a.shape = <<>> THEN <<1>> ELSE a.shape
    IN  IF Shape1(actual) # Shape1(expected) THEN "shape"
        ELSE IF IsFloating(actual)
             THEN IF expected.kind = "text" THEN "raise"
                  ELSE IF AllClose(actual, expected) THEN "pass" ELSE "value"
             ELSE IF ArrayEqual(actual, expected) THEN "pass" ELSE "value"

\* check_eq choosing the tolerance comparison when either side is floating
check_eq_either_floating(actual, expected) ==
    IF actual.shape # expected.shape THEN "shape"
    ELSE IF IsFloating(actual) \/ IsFloating(expected)
         THEN IF expected.kind = "text" \/ actual.kind = "text" THEN "raise"
              ELSE IF AllClose(actual, expected) THEN "pass" ELSE "value"
         ELSE IF ArrayEqual(actual, expected) THEN "pass" ELSE "value"

\* check_eq: "shape" and "value" are the two FAIL messages, "pass" the PASS
\* message, "raise" the TypeError np.allclose throws on text.
check_eq(actual, expected) ==
    IF actual.shape # expected.shape THEN "shape"
    ELSE IF IsFloating(actual)
         THEN IF expected.kind = "text" THEN "raise"
              ELSE IF AllClose(actual, expected) THEN "pass" ELSE "value"
         ELSE IF ArrayEqual(actual, expected) THEN "pass" ELSE "value"

\* ---------------------------------------------------------- the verifiers
\* What a check leaves behind: v is "pass", one of the FAIL messages, or
\* "raise" for an exception that leaves the function; a is the array handed
\* to check_eq as `actual`, NoArr when check_eq was not called.
NoArr == Arr("none", <<>>, <<>>)
NotRun == [v |-> "none", a |-> NoArr]
Failed(msg) == [v |-> msg, a |-> NoArr]
Raised == [v |-> "raise", a |-> NoArr]
Compared(actual, expected) == [v |-> check_eq(actual, expected), a |-> actual]

\* h5py.check_dtype(enum=...) gives label -> code; no entries when the type
\* is not an enum.
NoMapping == <<>>
IsEnum(mapping) == DOMAIN mapping # {}

\* rev_mapping = {v: k for k, v in mapping.items()}
rev_mapping(mapping) ==
    [code \in {mapping[k] : k \in DOMAIN mapping} |->
        CHOOSE k \in DOMAIN mapping : mapping[k] = code]

\* decode_enum that leaves out the codes it cannot map
decode_enum_skip_unmapped(mapping, data) ==
    LET rev == rev_mapping(mapping)
        known == SelectSeq(data, LAMBDA e : e.v \in DOMAIN rev)
    IN  [ok |-> TRUE, labels |-> [i \in 1..Len(known) |-> T(rev[known[i].v])]]

\* [rev_mapping[val] for val in data]: ok is FALSE when a code raises KeyError
decode_enum(mapping, data) ==
    LET rev == rev_mapping(mapping)
    IN  IF \A i \in 1..Len(data) : data[i].v \in DOMAIN rev
        THEN [ok |-> TRUE, labels |-> [i \in 1..Len(data) |-> T(rev[data[i].v])]]
        ELSE [ok |-> FALSE, labels |-> <<>>]

\* [x.decode('utf-8') for x in ...]: ok is FALSE on UnicodeDecodeError
decode_utf8(data) ==
    IF \A i \in 1..Len(data) : data[i].v = 1
    THEN [ok |-> TRUE, text |-> [i \in 1..Len(data) |-> T(data[i].s)]]
    ELSE [ok |-> FALSE, text |-> <<>>]

\* A dataset or a compound column: [kind, data, mapping], kind one of "int",
\* "bool", "float", "S" (fixed-width bytes).
Dset(kind, data, mapping) == [kind |-> kind, data |-> data, mapping |-> mapping]
AsArray(d) == Arr(d.kind, <<Len(d.data)>>, d.data)

verify_enum(dset, expected_labels) ==
    IF ~IsEnum(dset.mapping) THEN Failed("not enum")
    ELSE LET decoded == decode_enum(dset.mapping, dset.data)
         IN  IF ~decoded.ok THEN Failed("no mapping")
             ELSE Compared(NpList("text", decoded.labels), NpList("text", expected_labels))

\* One column of verify_compound, from the byte-string test to check_eq.
verify_column(col, expected) ==
    IF col.kind = "S"
    THEN LET decoded == decode_utf8(col.data)
         IN  IF ~decoded.ok THEN Raised
             ELSE Compared(NpList("text", decoded.text), expected)
    ELSE IF IsEnum(col.mapping)
    THEN LET decoded == decode_enum(col.mapping, col.data)
         IN  IF ~decoded.ok THEN Raised
             ELSE Compared(NpList("text", decoded.labels), expected)
    ELSE Compared(AsArray(col), expected)

\* the harnesses at rest, in the specifications that do not use them
EqIdle ==
    /\ eq_actual = NoArr
    /\ eq_expected = NoArr
    /\ eq_result = "none"
    /\ eq_swapped = "none"

EnumIdle ==
    /\ en_dset = Dset("int", <<>>, NoMapping)
    /\ en_expected = <<>>
    /\ en_out = NotRun
    /\ en_col = NotRun

\* the matrices of the layout check
MatrixDbl3x2 == << <<F(10000000), F(40000000)>>, <<F(20000000), F(50000000)>>,
                  <<F(30000000), F(60000000)>> >>
MatrixDbl3x2Other == << <<F(10000000), F(40000000)>>, <<F(20000000), F(50000000)>>,
                       <<F(30000000), F(70000000)>> >>
Matrix2x3 == <<<<I(1), I(3), I(5)>>, <<I(2), I(4), I(6)>>>>
Matrix3x2 == <<<<I(1), I(2)>>, <<I(3), I(4)>>, <<I(5), I(6)>>>>
Matrix2x3Other == <<<<I(1), I(3), I(5)>>, <<I(2), I(4), I(0)>>>>

\* ---------------------------------------------------------------- the file
\* The file is a record of its datasets and attributes.  Each field has a
\* reference value, the one the writer is expected to have stored, and a few
\* other values, each under a name.
Fields == {"openable", "vec_int", "vec_dbl", "vec_bool", "vec_str",
           "factor_standard", "factor_reordered", "matrix_int", "matrix_dbl",
           "col_names", "col_id", "col_code", "col_status", "col_value",
           "attr_description", "attr_version"}

Bytes(texts) == [i \in 1..Len(texts) |-> B(texts[i], TRUE)]
Ints(ns) == [i \in 1..Len(ns) |-> I(ns[i])]
Floats(us) == [i \in 1..Len(us) |-> F(us[i])]
Texts(ts) == [i \in 1..Len(ts) |-> T(ts[i])]

SizeMapping == ("small" :> 0) @@ ("medium" :> 1) @@ ("large" :> 2)
ReorderedMapping == ("z" :> 0) @@ ("x" :> 1) @@ ("y" :> 2)
StatusMapping == ("ok" :> 0) @@ ("fail" :> 1)

\* an attribute: present or not, stored as bytes or not, and its value
Attr(present, isbytes, val) == [present |-> present, isbytes |-> isbytes, val |-> val]

Variants(f) ==
    CASE f = "openable" -> [reference |-> TRUE, unreadable |-> FALSE]
      [] f = "vec_int" ->
            [ reference |-> Dset("int", Ints(<<1, 2, -5>>), NoMapping),
              wrong_value |-> Dset("int", Ints(<<1, 2, 5>>), NoMapping),
              short |-> Dset("int", Ints(<<1, 2>>), NoMapping) ]
      [] f = "vec_dbl" ->
            [ reference |-> Dset("float", Floats(<<110000000, 220000000, 314000000>>), NoMapping),
              near |-> Dset("float", Floats(<<110000000, 220000000, 314000010>>), NoMapping),
              wrong_value |-> Dset("float", Floats(<<110000000, 220000000, 315000000>>), NoMapping) ]
      [] f = "vec_bool" ->
            [ reference |-> Dset("bool", Ints(<<1, 0, 1>>), NoMapping),
              wrong_value |-> Dset("bool", Ints(<<1, 1, 1>>), NoMapping) ]
      [] f = "vec_str" ->
            [ reference |-> Dset("S", Bytes(<<"alpha", "bravo", "charlie">>), NoMapping),
              wrong_value |-> Dset("S", Bytes(<<"alpha", "bravo", "delta">>), NoMapping),
              invalid_utf8 |-> Dset("S", <<B("alpha", TRUE), B("bravo", FALSE), B("charlie", TRUE)>>,
                                    NoMapping) ]
      [] f = "factor_standard" ->
            [ reference |-> Dset("int", Ints(<<0, 1, 0, 2>>), SizeMapping),
              unmapped_code |-> Dset("int", Ints(<<0, 1, 0, 3>>), SizeMapping),
              wrong_value |-> Dset("int", Ints(<<0, 1, 1, 2>>), SizeMapping),
              not_enum |-> Dset("int", Ints(<<0, 1, 0, 2>>), NoMapping) ]
      [] f = "factor_reordered" ->
            [ reference |-> Dset("int", Ints(<<0, 1, 2>>), ReorderedMapping),
              wrong_value |-> Dset("int", Ints(<<0, 2, 1>>), ReorderedMapping) ]
      [] f = "matrix_int" ->
            [ reference |-> NpNested("int", Matrix2x3),
              transposed |-> NpNested("int", Matrix3x2),
              wrong_value |-> NpNested("int", Matrix2x3Other) ]
      [] f = "matrix_dbl" ->
            [ reference |-> NpNested("float", MatrixDbl3x2),
              wrong_value |-> NpNested("float", MatrixDbl3x2Other) ]
      [] f = "col_names" ->
            [ reference |-> {"id", "code", "status", "value"},
              no_value |-> {"id", "code", "status"},
              no_status |-> {"id", "code", "value"} ]
      [] f = "col_id" ->
            [ reference |-> Dset("int", Ints(<<1, 2, 3>>), NoMapping),
              wrong_value |-> Dset("int", Ints(<<1, 2, 4>>), NoMapping) ]
      [] f = "col_code" ->
            [ reference |-> Dset("S", Bytes(<<"A-1", "B-2", "C-3">>), NoMapping),
              wrong_value |-> Dset("S", Bytes(<<"A-1", "B-2", "C-4">>), NoMapping),
              invalid_utf8 |-> Dset("S", <<B("A-1", TRUE), B("B-2", TRUE), B("C-3", FALSE)>>,
                                    NoMapping),
              as_float |-> Dset("float", Floats(<<0, 0, 0>>), NoMapping) ]
      [] f = "col_status" ->
            [ reference |-> Dset("int", Ints(<<0, 1, 0>>), StatusMapping),
              unmapped_code |-> Dset("int", Ints(<<0, 2, 0>>), StatusMapping),
              wrong_value |-> Dset("int", Ints(<<0, 0, 0>>), StatusMapping) ]
      [] f = "col_value" ->
            [ reference |-> Dset("float", Floats(<<1050000000, 2000000000, 1550000000>>), NoMapping),
              wrong_value |-> Dset("float", Floats(<<1050000000, 2050000000, 1550000000>>), NoMapping) ]
      [] f = "attr_description" ->
            [ reference |-> Attr(TRUE, FALSE, NpScalar("text", T("Test Integers"))),
              as_bytes |-> Attr(TRUE, TRUE, NpScalar("S", B("Test Integers", TRUE))),
              wrong_value |-> Attr(TRUE, FALSE, NpScalar("text", T("Test Doubles"))),
              missing |-> Attr(FALSE, FALSE, NoArr) ]
      [] f = "attr_version" ->
            [ reference |-> Attr(TRUE, FALSE, Arr("int", <<1>>, <<I(1)>>)),
              scalar |-> Attr(TRUE, FALSE, NpScalar("int", I(1))),
              wrong_value |-> Attr(TRUE, FALSE, Arr("int", <<1>>, <<I(2)>>)),
              missing |-> Attr(FALSE, FALSE, NoArr) ]

\* The state names the value each field holds; Contents gives the values.
Contents(pick) == [f \in Fields |-> Variants(f)[pick[f]]]

ReferencePick == [f \in Fields |-> "reference"]

FaultNames == UNION {DOMAIN Variants(f) : f \in Fields} \ {"reference"}

\* the files that differ from the reference file in at most MaxFaults fields
Picks ==
    UNION { { [f \in Fields |-> IF f \in S THEN g[f] ELSE "reference"] :
                g \in {h \in [S -> FaultNames] : \A f \in S : h[f] \in DOMAIN Variants(f)} } :
            S \in {X \in SUBSET Fields : Cardinality(X) <= MaxFaults} }

\* ------------------------------------------------------- the test runner
Sections == {"vectors", "factors", "matrices", "compound", "attributes"}
CodeOrder == <<"vectors", "factors", "matrices", "compound", "attributes">>

SectionChecks(s) ==
    CASE s = "vectors" -> <<"vec/int", "vec/dbl", "vec/bool", "vec/str">>
      [] s = "factors" -> <<"factor/standard", "factor/reordered">>
      [] s = "matrices" -> <<"matrix/int_2x3", "matrix/dbl_3x2">>
      [] s = "compound" -> <<"compound/id", "compound/code", "compound/status", "compound/value">>
      [] s = "attributes" -> <<"attr/description", "attr/version">>

Checks == UNION {{SectionChecks(s)[i] : i \in 1..Len(SectionChecks(s))} : s \in Sections}

\* the string vector: bytes decoded to text, then compared
check_strs(dset, expected) ==
    LET strs == decode_utf8(dset.data)
    IN  IF ~strs.ok THEN Raised ELSE Compared(NpList("text", strs.text), expected)

\* one iteration of verify_compound's loop over expected_dict
compound_item(f, col_name, col, expected) ==
    IF col_name \notin f.col_names THEN Failed("missing") ELSE verify_column(col, expected)

\* the attribute checks: a missing attribute is a FAIL, bytes are decoded
check_description(attr, expected) ==
    IF ~attr.present THEN Failed("missing")
    ELSE IF attr.isbytes
         THEN LET val == decode_utf8(attr.val.data)
              IN  IF ~val.ok THEN Raised ELSE Compared(NpScalar("text", val.text[1]), expected)
         ELSE Compared(attr.val, expected)

check_version(attr, expected) ==
    IF ~attr.present THEN Failed("missing") ELSE Compared(attr.val, expected)

\* what check c does on file f, with the literals the runner passes
Outcome(f, c) ==
    CASE c = "vec/int" -> Compared(AsArray(f.vec_int), NpList("int", Ints(<<1, 2, -5>>)))
      [] c = "vec/dbl" -> Compared(AsArray(f.vec_dbl),
                                   NpList("float", Floats(<<110000000, 220000000, 314000000>>)))
      [] c = "vec/bool" -> Compared(AsArray(f.vec_bool), NpList("int", Ints(<<1, 0, 1>>)))
      [] c = "vec/str" -> check_strs(f.vec_str, NpList("text", Texts(<<"alpha", "bravo", "charlie">>)))
      [] c = "factor/standard" ->
            verify_enum(f.factor_standard, Texts(<<"small", "medium", "small", "large">>))
      [] c = "factor/reordered" -> verify_enum(f.factor_reordered, Texts(<<"z", "x", "y">>))
      [] c = "matrix/int_2x3" -> Compared(f.matrix_int, NpNested("int", Matrix2x3))
      [] c = "matrix/dbl_3x2" ->
            Compared(f.matrix_dbl, NpNested("float", MatrixDbl3x2))
      [] c = "compound/id" ->
            compound_item(f, "id", f.col_id, NpList("int", Ints(<<1, 2, 3>>)))
      [] c = "compound/code" ->
            compound_item(f, "code", f.col_code, NpList("text", Texts(<<"A-1", "B-2", "C-3">>)))
      [] c = "compound/status" ->
            compound_item(f, "status", f.col_status, NpList("text", Texts(<<"ok", "fail", "ok">>)))
      [] c = "compound/value" ->
            compound_item(f, "value", f.col_value,
                          NpList("float", Floats(<<1050000000, 2000000000, 1550000000>>)))
      [] c = "attr/description" ->
            check_description(f.attr_description, NpScalar("text", T("Test Integers")))
      [] c = "attr/version" -> check_version(f.attr_version, NpList("int", Ints(<<1>>)))

\* Section s executed on file f from the results res: its checks run in the
\* order written until one raises; [results, crashed].
RunSection(f, s, res) ==
    LET cs == SectionChecks(s)
        raises == {i \in 1..Len(cs) : Outcome(f, cs[i]).v = "raise"}
        stop == IF raises = {} THEN Len(cs) + 1
                ELSE CHOOSE i \in raises : \A j \in raises : i <= j
    IN  [ results |-> [c \in Checks |->
                          IF \E i \in 1..(stop - 1) : cs[i] = c THEN Outcome(f, c).v
                          ELSE res[c]],
          crashed |-> stop <= Len(cs) ]

RunIdle ==
    /\ file = ReferencePick
    /\ pc = "idle"
    /\ done = {}
    /\ last = ""
    /\ results = [c \in Checks |-> "none"]
    /\ exit_code = -1

Init ==
    /\ file \in Picks
    /\ pc = "start"
    /\ done = {}
    /\ last = ""
    /\ results = [c \in Checks |-> "none"]
    /\ exit_code = -1
    /\ EqIdle
    /\ EnumIdle

\* with h5py.File(filename, "r") as f:
Open ==
    /\ pc = "start"
    /\ Contents(file).openable
    /\ pc' = "running"
    /\ UNCHANGED <<file, done, last, results, exit_code, eqVars, enVars>>

\* h5py.File raises: the traceback ends the process with status 1
OpenFails ==
    /\ pc = "start"
    /\ ~Contents(file).openable
    /\ pc' = "aborted"
    /\ exit_code' = 1
    /\ UNCHANGED <<file, done, last, results, eqVars, enVars>>

DoSection(s) ==
    /\ s \notin done
    /\ LET run == RunSection(Contents(file), s, results)
       IN  /\ results' = run.results
           /\ last' = s
           /\ IF run.crashed
              THEN pc' = "crashed" /\ exit_code' = 1 /\ done' = done
              ELSE pc' = pc /\ exit_code' = exit_code /\ done' = done \cup {s}
    /\ UNCHANGED <<file, eqVars, enVars>>

\* the statements of the script run in the order written
InOrder(s) == \A i, j \in 1..Len(CodeOrder) : (i < j /\ CodeOrder[j] = s) => CodeOrder[i] \in done

Vectors == pc = "running" /\ InOrder("vectors") /\ DoSection("vectors")
Factors == pc = "running" /\ InOrder("factors") /\ DoSection("factors")
Matrices == pc = "running" /\ InOrder("matrices") /\ DoSection("matrices")
Compound == pc = "running" /\ InOrder("compound") /\ DoSection("compound")
Attributes == pc = "running" /\ InOrder("attributes") /\ DoSection("attributes")

\* print("\nVerification Complete."), then the script ends
Finish ==
    /\ pc = "running"
    /\ done = Sections
    /\ pc' = "complete"
    /\ exit_code' = 0
    /\ UNCHANGED <<file, done, last, results, eqVars, enVars>>

Next == Open \/ OpenFails \/ Vectors \/ Factors \/ Matrices \/ Compound \/ Attributes \/ Finish

Spec == Init /\ [][Next]_vars

\* The same checks taken in any order.
AnyVectors == pc = "running" /\ DoSection("vectors")
AnyFactors == pc = "running" /\ DoSection("factors")
AnyMatrices == pc = "running" /\ DoSection("matrices")
AnyCompound == pc = "running" /\ DoSection("compound")
AnyAttributes == pc = "running" /\ DoSection("attributes")

NextAnyOrder ==
    Open \/ OpenFails \/ AnyVectors \/ AnyFactors \/ AnyMatrices \/ AnyCompound
    \/ AnyAttributes \/ Finish

SpecAnyOrder == Init /\ [][NextAnyOrder]_vars

\* ------------------------------------------------- check_eq argument space
IntElems == {I(0), I(1), I(2)}
BoolElems == {I(0), I(1)}
FloatElems == {F(0), F(1), F(2), F(Unit), F(Unit - 1001), NaN, Inf(1)}
TextElems == {T("a"), T("b")}

SeqsUpTo(S, n) == UNION {[1..k -> S] : k \in 0..n}

EqArrays ==
    {Arr("int", <<Len(q)>>, q) : q \in SeqsUpTo(IntElems, MaxLen)}
    \cup {Arr("bool", <<Len(q)>>, q) : q \in SeqsUpTo(BoolElems, MaxLen)}
    \cup {Arr("float", <<Len(q)>>, q) : q \in SeqsUpTo(FloatElems, MaxLen)}
    \cup {Arr("text", <<Len(q)>>, q) : q \in SeqsUpTo(TextElems, MaxLen)}
    \cup {NpScalar("int", e) : e \in IntElems}
    \cup {NpScalar("float", e) : e \in FloatElems}
    \cup {NpScalar("text", e) : e \in TextElems}
    \cup {NpNested("int", m) : m \in {Matrix2x3, Matrix3x2, Matrix2x3Other}}

InitEq ==
    /\ eq_actual \in EqArrays
    /\ eq_expected \in EqArrays
    /\ eq_result = "none"
    /\ eq_swapped = "none"
    /\ EnumIdle
    /\ RunIdle

CallCheckEq ==
    /\ eq_result = "none"
    /\ eq_result' = check_eq(eq_actual, eq_expected)
    /\ UNCHANGED <<eq_actual, eq_expected, eq_swapped, enVars, runVars>>

CallCheckEqSwapped ==
    /\ eq_swapped = "none"
    /\ eq_swapped' = check_eq(eq_expected, eq_actual)
    /\ UNCHANGED <<eq_actual, eq_expected, eq_result, enVars, runVars>>

NextEq == CallCheckEq \/ CallCheckEqSwapped

SpecEq == InitEq /\ [][NextEq]_vars

\* ------------------------------------------------ properties of check_eq
EqCalled == eq_result # "none"
EqSwappedCalled == eq_swapped # "none"
SameShape == eq_actual.shape = eq_expected.shape
IsSequence(a) == Len(a.shape) = 1

\* the number an element stands for, in units (finite numbers only)
UnitsOf(e) == IF e.c = "int" THEN e.v * Unit ELSE e.v

IsFinite(e) == e.c \in {"int", "fin"}

\* x and y differ by no more than the tolerance: atol + rtol * |y|
WithinTolerance(x, y) ==
    \/ /\ IsFinite(x) /\ IsFinite(y)
       /\ Abs(UnitsOf(x) - UnitsOf(y)) - Atol <= Abs(UnitsOf(y)) \div RtolInv
    \/ x.c = "inf" /\ y.c = "inf" /\ x.v = y.v

\* x and y are exactly the same value
SameValue(x, y) ==
    \/ x.c = "str" /\ y.c = "str" /\ x.s = y.s
    \/ IsFinite(x) /\ IsFinite(y) /\ UnitsOf(x) = UnitsOf(y)
    \/ x.c = "inf" /\ y.c = "inf" /\ x.v = y.v

AllWithinTolerance(a, b) == \A i \in 1..Len(a.data) : WithinTolerance(a.data[i], b.data[i])
AllSameValue(a, b) == \A i \in 1..Len(a.data) : SameValue(a.data[i], b.data[i])

\* C1: whenever the shapes of the two arguments differ, check_eq answers
\* "shape mismatch" (never "value mismatch", never a pass, never an error); the
\* 2x3 matrix against the 3x2 literal of the same six numbers is a shape
\* mismatch, and against the same 2x3 literal it passes.
C1_ShapeMismatchShortCircuits ==
    /\ (EqCalled /\ ~SameShape) => eq_result = "shape"
    /\ (EqSwappedCalled /\ ~SameShape) => eq_swapped = "shape"
    /\ (EqCalled /\ eq_actual = NpNested("int", Matrix2x3)
             /\ eq_expected = NpNested("int", Matrix3x2)) => eq_result = "shape"
    /\ (EqCalled /\ eq_actual = NpNested("int", Matrix2x3)
             /\ eq_expected = NpNested("int", Matrix2x3)) => eq_result = "pass"

C1_Witness ==
    /\ eq_actual = NpNested("int", Matrix2x3)
    /\ eq_expected = NpNested("int", Matrix3x2)
    /\ eq_result = "shape"

\* C2: for integer, boolean (0/1) and text sequences a and b, check_eq(a, b)
\* passes exactly when a and b have the same elements in the same positions.
C2_ExactForIntBoolText ==
    (EqCalled /\ IsSequence(eq_actual) /\ IsSequence(eq_expected)
        /\ eq_actual.kind \in {"int", "bool", "text"}
        /\ eq_expected.kind \in {"int", "bool", "text"})
    => (eq_result = "pass" <=> eq_actual.data = eq_expected.data)

C2_Witness ==
    /\ eq_actual = Arr("int", <<2>>, <<I(1), I(2)>>)
    /\ eq_expected = Arr("int", <<2>>, <<I(1), I(0)>>)
    /\ eq_result = "value"

\* C3: for floating-point arrays a and b of one shape, check_eq(a, b) passes
\* exactly when every pair of elements is within atol + rtol * |b| (rtol 1e-5,
\* atol 1e-8).
C3_ToleranceForFloats ==
    (EqCalled /\ SameShape /\ eq_actual.kind = "float" /\ eq_expected.kind = "float")
    => (eq_result = "pass" <=> AllWithinTolerance(eq_actual, eq_expected))

C3_Witness ==
    /\ eq_actual = Arr("float", <<1>>, <<F(Unit - 1001)>>)
    /\ eq_expected = Arr("float", <<1>>, <<F(Unit)>>)
    /\ eq_result = "pass"
    /\ eq_swapped = "value"

\* C8 as stated: a one-element array and the bare scalar of the same value
\* compare equal under check_eq, in either argument position.
C8_ArrayOfOneEqualsScalar ==
    (eq_actual.shape = <<1>> /\ eq_expected.shape = <<>>
        /\ SameValue(eq_actual.data[1], eq_expected.data[1]))
    => /\ EqCalled => eq_result = "pass"
       /\ EqSwappedCalled => eq_swapped = "pass"

\* C8 amended: a one-element array against the bare scalar of the same value
\* is a shape mismatch in either argument position; against the one-element
\* sequence of the same value (as the 'version' check writes it, [1]) it passes.
C8_ArrayOfOneNeedsSequenceLiteral ==
    /\ (eq_actual.shape = <<1>> /\ eq_expected.shape = <<>>)
       => /\ EqCalled => eq_result = "shape"
          /\ EqSwappedCalled => eq_swapped = "shape"
    /\ (eq_actual.shape = <<1>> /\ eq_expected.shape = <<1>>
            /\ SameValue(eq_actual.data[1], eq_expected.data[1]))
       => /\ EqCalled => eq_result = "pass"
          /\ EqSwappedCalled => eq_swapped = "pass"

C8_Witness ==
    /\ eq_actual = Arr("int", <<1>>, <<I(1)>>)
    /\ eq_expected = NpScalar("int", I(1))
    /\ eq_result = "shape"
    /\ eq_swapped = "shape"

\* C10: the comparison policy follows the kind of `actual` alone.  With one
\* shape on both sides, a floating-point actual is compared with the tolerance
\* and any other actual exactly, whatever the kind of `expected`; an integer
\* actual against a floating-point expected that is within tolerance but not
\* equal fails, and the same two values with the arguments swapped pass.
C10_PolicyFollowsActual ==
    /\ (EqCalled /\ SameShape /\ eq_actual.kind = "float" /\ eq_expected.kind # "text")
       => (eq_result = "pass" <=> AllWithinTolerance(eq_actual, eq_expected))
    /\ (EqCalled /\ SameShape /\ eq_actual.kind # "float")
       => (eq_result = "pass" <=> AllSameValue(eq_actual, eq_expected))
    /\ (EqCalled /\ EqSwappedCalled /\ SameShape
            /\ eq_actual.kind = "int" /\ eq_expected.kind = "float"
            /\ AllWithinTolerance(eq_expected, eq_actual)
            /\ ~AllSameValue(eq_actual, eq_expected))
       => (eq_result = "value" /\ eq_swapped = "pass")

C10_Witness ==
    /\ eq_actual = Arr("int", <<1>>, <<I(1)>>)
    /\ eq_expected = Arr("float", <<1>>, <<F(Unit - 1001)>>)
    /\ eq_result = "value"
    /\ eq_swapped = "pass"

\* ------------------------------------------------- enum argument space
SparseMapping == ("small" :> 0) @@ ("large" :> 2)
EnumCodes == {I(0), I(1), I(2), I(3)}
EnumLabels == {T("small"), T("large")}

InitEnum ==
    /\ en_dset \in {Dset("int", q, m) : q \in SeqsUpTo(EnumCodes, MaxCodes),
                                        m \in {SizeMapping, SparseMapping, NoMapping}}
    /\ en_expected \in SeqsUpTo(EnumLabels, MaxCodes)
    /\ en_out = NotRun
    /\ en_col = NotRun
    /\ EqIdle
    /\ RunIdle

CallVerifyEnum ==
    /\ en_out = NotRun
    /\ en_out' = verify_enum(en_dset, en_expected)
    /\ UNCHANGED <<en_dset, en_expected, en_col, eqVars, runVars>>

CallVerifyColumn ==
    /\ en_col = NotRun
    /\ en_col' = verify_column(en_dset, NpList("text", en_expected))
    /\ UNCHANGED <<en_dset, en_expected, en_out, eqVars, runVars>>

NextEnum == CallVerifyEnum \/ CallVerifyColumn

SpecEnum == InitEnum /\ [][NextEnum]_vars

\* ------------------------------------------------- properties of decoding
CodeMapped(mapping, e) == \E k \in DOMAIN mapping : mapping[k] = e.v
AllMapped(d) == \A i \in 1..Len(d.data) : CodeMapped(d.mapping, d.data[i])
LabelOf(mapping, e) == T(CHOOSE k \in DOMAIN mapping : mapping[k] = e.v)

\* out carries the whole column decoded in order
DecodedInOrder(out, d) ==
    /\ out.v \in {"pass", "shape", "value"}
    /\ Len(out.a.data) = Len(d.data)
    /\ \A i \in 1..Len(d.data) : out.a.data[i] = LabelOf(d.mapping, d.data[i])

\* C4: enum decoding gives every code of the column, in order, the label its
\* mapping names, so the decoded column is as long as the raw one; when some
\* code has no entry the decoding fails as a whole: nothing is handed to the
\* comparison and the check does not pass (verify_enum reports a FAIL, the
\* compound column raises).
C4_EnumDecodeWholeColumn ==
    /\ (en_out # NotRun /\ IsEnum(en_dset.mapping))
       => IF AllMapped(en_dset) THEN DecodedInOrder(en_out, en_dset)
          ELSE en_out = Failed("no mapping")
    /\ (en_col # NotRun /\ IsEnum(en_dset.mapping))
       => IF AllMapped(en_dset) THEN DecodedInOrder(en_col, en_dset)
          ELSE en_col = Raised

C4_Witness ==
    /\ en_dset = Dset("int", <<I(0), I(1)>>, SparseMapping)
    /\ en_out = Failed("no mapping")
    /\ en_col = Raised

\* ------------------------------------------------- properties of the run
Terminated == pc \in {"complete", "aborted", "crashed"}
IsFail(v) == v \notin {"none", "pass"}
SameAsReference(fs) == \A f \in fs : file[f] = "reference"

\* the results the script leaves when its sections run in the order written
RECURSIVE RunFrom(_, _, _)
RunFrom(f, i, res) ==
    IF i > Len(CodeOrder) THEN res
    ELSE LET run == RunSection(f, CodeOrder[i], res)
         IN  IF run.crashed THEN run.results ELSE RunFrom(f, i + 1, run.results)

RunInCodeOrder(f) == RunFrom(f, 1, [c \in Checks |-> "none"])

\* the script in the order written leaves exactly those results
RunnerFollowsCodeOrder == (pc \in {"complete", "crashed"}) => results = RunInCodeOrder(Contents(file))

CompoundOver == "compound" \in done \/ (pc = "crashed" /\ last = "compound")
ColumnField(c) ==
    CASE c = "compound/id" -> "col_id"
      [] c = "compound/code" -> "col_code"
      [] c = "compound/status" -> "col_status"
      [] c = "compound/value" -> "col_value"

\* C5, for files that differ from the reference file in nothing but the data
\* of the columns id, status and value: once the compound check is over every
\* column has reported, and every column that holds its expected data has
\* reported a pass, whatever the other columns hold.
C5_ColumnsCheckedIndependently ==
    (CompoundOver /\ SameAsReference(Fields \ {"col_id", "col_status", "col_value"}))
    => \A i \in 1..Len(SectionChecks("compound")) :
          LET c == SectionChecks("compound")[i]
          IN  /\ results[c] # "none"
              /\ file[ColumnField(c)] = "reference" => results[c] = "pass"

\* C6, for files whose only faults are the decode errors the claim names (an
\* enum code without a mapping entry in a factor dataset or in the status
\* column, a column missing from the compound dataset): the run is never cut
\* short, and when it ends every check has a result, the ones that could not
\* be decoded a FAIL.
C6_DecodeErrorsFailOnlyTheirCheck ==
    SameAsReference(Fields \ {"factor_standard", "factor_reordered", "col_status", "col_names"})
    => /\ pc # "crashed"
       /\ pc = "complete" => \A c \in Checks : results[c] # "none"
       /\ (pc = "complete" /\ file["factor_standard"] = "unmapped_code")
          => IsFail(results["factor/standard"])
       /\ (pc = "complete" /\ file["col_status"] = "unmapped_code")
          => IsFail(results["compound/status"])
       /\ (pc = "complete" /\ file["col_names"] = "no_value")
          => IsFail(results["compound/value"])

\* C7: when the run has ended, its exit status is 0 exactly when the file was
\* opened and every check passed.
C7_ExitStatusReflectsChecks ==
    Terminated => (exit_code = 0 <=> (Contents(file).openable /\ \A c \in Checks : results[c] = "pass"))

\* C9, for files that differ from the reference file in nothing but the status
\* column: in whatever order the sections are taken, the run ends with every
\* check evaluated and with the results the order written gives.
C9_OrderIndependent ==
    (pc \in {"complete", "crashed"} /\ SameAsReference(Fields \ {"col_status"}))
    => /\ results = RunInCodeOrder(Contents(file))
       /\ \A c \in Checks : results[c] # "none"

====
